---- MODULE Spec2Model ----
(***************************************************************************)
(* Model of the chunked transcription pipeline of the meeting-note         *)
(* transcriber: the App component (processRecording, the piece retry, the  *)
(* transcript edit, the notes stage), transcribeAudio and the IndexedDB    *)
(* recording store.                                                        *)
(***************************************************************************)
EXTENDS Integers, Sequences, FiniteSets, TLC

\* ------------------------------------------------------------------------
\* Program constants (App, module level)
\* ------------------------------------------------------------------------
MAX_CHUNK_SIZE_BYTES == 10 * 1024 * 1024

HEADER_SIZE_BYTES == 10 * 1024

\* MAX_CHUNK_SIZE_BYTES - HEADER_SIZE_BYTES, the stride of the piece loop
STEP == MAX_CHUNK_SIZE_BYTES - HEADER_SIZE_BYTES

\* ------------------------------------------------------------------------
\* Bounds of the model
\* ------------------------------------------------------------------------
\* payload sizes reach up to MaxStrides strides (plus offsets around a stride)
MaxStrides == 4

\* handler invocations (upload, retries, selection, notes) in flight at once
MaxTasks == 2

\* user events (upload, retry, selection, edit, notes) in a behaviour
MaxEvents == 3

\* recordings ever inserted into the recording store
MaxRecordings == 1

\* storage operations the environment may make fail in a behaviour
MaxDbFailures == 2

\* live recording sessions in a behaviour
MaxSessions == 1

\* fragments the recorder emits on its timer in a session (the fragment that
\* stop() flushes comes on top)
MaxFragments == 1

\* characters of a corrected text; characters of a replacement text
MaxContent == 2

MaxNewText == 2

\* ------------------------------------------------------------------------
\* Arithmetic of the piece plan
\* ------------------------------------------------------------------------
Min(a, b) == IF a <= b THEN a ELSE b

\* Math.ceil(a / b) for an integer a (possibly negative) and b > 0
CeilDiv(a, b) == IF a % b = 0 THEN a \div b ELSE (a \div b) + 1

\* Math.round(((done) / total) * 95): round half up, operands non-negative
RoundDiv(a, b) == (2 * a + b) \div (2 * b)

\* whether the run takes the single-shot branch
IsSinglePiece(size) == size <= MAX_CHUNK_SIZE_BYTES

\* (mutation of TotalChunks: Math.floor(blob.size / (MAX - HEADER)) + 1)
TotalChunksFloor(size) == (size \div STEP) + 1

\* const totalChunks = Math.ceil((blob.size - HEADER) / (MAX - HEADER))
TotalChunks(size) == CeilDiv(size - HEADER_SIZE_BYTES, STEP)

\* const start = i * (MAX - HEADER)
ChunkStart(i) == i * STEP

\* (mutation of ChunkEnd: Math.min(start + MAX, blob.size))
ChunkEndWhole(i, size) == Min(ChunkStart(i) + MAX_CHUNK_SIZE_BYTES, size)

\* const end = Math.min(start + (MAX - HEADER), blob.size)
ChunkEnd(i, size) == Min(ChunkStart(i) + STEP, size)

\* blob.slice(start, end): the byte range actually cut (clamped, empty when
\* start >= size)
SliceRange(start, end, size) ==
    LET s == Min(start, size)
        e == Min(end, size)
    IN  IF e <= s THEN <<s, s>> ELSE <<s, e>>

\* number of pieces of the plan of the full run
PlanCount(size) == IF IsSinglePiece(size) THEN 1 ELSE TotalChunks(size)

\* byte range of piece i in the full run: the whole blob in the single-shot
\* branch, blob.slice(start, end) in the loop
RunPieceRange(i, size) ==
    IF IsSinglePiece(size) THEN <<0, size>>
    ELSE SliceRange(ChunkStart(i), ChunkEnd(i, size), size)

\* whether the full run prepends the header to piece i: never in the
\* single-shot branch, (i === 0) ? chunkBlob : new Blob([header, chunkBlob])
RunHeader(i, size) == ~IsSinglePiece(size) /\ i # 0

\* what handleRetryChunkTranscription submits for piece chunkIndex: the byte
\* range blob.slice(start, end), and whether the header is prepended
RetrySubmission(chunkIndex, size) ==
    [range |-> SliceRange(ChunkStart(chunkIndex), ChunkEnd(chunkIndex, size), size),
     header |-> chunkIndex > 0 /\ size > MAX_CHUNK_SIZE_BYTES]

\* header.size: const header = blob.slice(0, HEADER_SIZE_BYTES, blob.type)
HeaderSize(size) ==
    LET r == SliceRange(0, HEADER_SIZE_BYTES, size) IN r[2] - r[1]

\* blobToSend.size of piece i in the full run: the piece's own range, after
\* the header for the pieces the run prepends it to
BlobToSendSize(i, range, size) ==
    (range[2] - range[1]) + (IF RunHeader(i, size) THEN HeaderSize(size) ELSE 0)

\* blobToSend.size in handleRetryChunkTranscription(chunkIndex)
RetryBlobToSendSize(chunkIndex, size) ==
    LET s == RetrySubmission(chunkIndex, size) IN
    (s.range[2] - s.range[1]) + (IF s.header THEN HeaderSize(size) ELSE 0)

\* ------------------------------------------------------------------------
\* State
\* ------------------------------------------------------------------------
VARIABLES
    db,          \* the 'recordings' object store: id -> Recording
    ui,          \* the React state of App (useState values)
    tasks,       \* the async handler invocations: slot -> position and locals
    faults,      \* storage failures the environment may still inject
    files,       \* payload sizes of the files the user may upload
    budget,      \* user events the behaviour may still take
    planSize,    \* the payload size whose plan is being laid out
    planPieces,  \* the byte ranges laid out so far
    capture,     \* the live recording: MediaRecorder, refs, the 'audioChunks' store
    doc,         \* the texts a correction acts on, character by character
    vocabulary   \* the vocabulary list (useState of App)

vars == <<db, ui, tasks, faults, files, budget, planSize, planPieces, capture,
          doc, vocabulary>>

appVars == <<db, ui, tasks, faults, files, budget>>

envVars == <<files, budget>>

planVars == <<planSize, planPieces>>

textVars == <<doc, vocabulary>>

\* what the handlers of the recording store leave alone
sideVars == <<planSize, planPieces, capture, doc, vocabulary>>

\* ------------------------------------------------------------------------
\* Values
\* ------------------------------------------------------------------------
\* Text values are abstracted to their origin: the recording whose audio was
\* transcribed, whether String.trim() has been applied, and the kind of text.
NoText == [kind |-> "empty", of |-> 0, trimmed |-> TRUE]

\* response.text of a transcription of recording id (untrimmed, as received)
RawTranscript(id) == [kind |-> "text", of |-> id, trimmed |-> FALSE]

\* String.prototype.trim
Trim(c) == [c EXCEPT !.trimmed = TRUE]

\* err.message of a failed transcribeAudio call
TranscribeErrorMessage == [kind |-> "error", of |-> 0, trimmed |-> TRUE]

\* the rejection text of a failed storage operation
StorageErrorMessage == [kind |-> "dberror", of |-> 0, trimmed |-> TRUE]

\* e.target.value of the piece's textarea after the user typed into content c
EditedText(c) == [kind |-> "edit", of |-> c.of, trimmed |-> FALSE]

NoNotes == [kind |-> "empty", of |-> 0]

NoChunks == <<>>

\* { index: i, content: '', status: 'processing' }
ProcessingChunk(i) == [index |-> i, content |-> NoText, status |-> "processing"]

\* Array.from({ length: totalChunks }, (_, i) => ...)
InitialChunks(total) == [j \in 1..total |-> ProcessingChunk(j - 1)]

\* chunks.map(c => c.index === chunkIndex ? { ...c, ...patch } : c)
MapChunk(chunks, chunkIndex, patch) ==
    [j \in 1..Len(chunks) |->
        IF chunks[j].index = chunkIndex
        THEN [f \in DOMAIN chunks[j] |->
                 IF f \in DOMAIN patch THEN patch[f] ELSE chunks[j][f]]
        ELSE chunks[j]]

\* finalChunks[i] = { ...finalChunks[i], ...patch } (array position i)
SetChunk(chunks, i, patch) ==
    [j \in 1..Len(chunks) |->
        IF j = i + 1
        THEN [f \in DOMAIN chunks[j] |->
                 IF f \in DOMAIN patch THEN patch[f] ELSE chunks[j][f]]
        ELSE chunks[j]]

\* (mutation of AllSucceeded: 'some' in place of 'every')
AllSucceededSome(chunks) == \E j \in 1..Len(chunks) : chunks[j].status = "completed"

\* finalChunks.every(c => c.status === 'completed')
AllSucceeded(chunks) == \A j \in 1..Len(chunks) : chunks[j].status = "completed"

\* the Recording built by createAndProcessRecording
NewRecording(size) ==
    [size |-> size, name |-> "given", status |-> "new", progress |-> 0,
     transcriptChunks |-> NoChunks, formattedNotes |-> NoNotes]

\* const { blob } = recording: what an invocation keeps of the loaded record
BlobOf(rec) == [NewRecording(rec.size) EXCEPT !.status = "loaded"]

NoRecording ==
    [size |-> 0, name |-> "none", status |-> "absent", progress |-> 0,
     transcriptChunks |-> NoChunks, formattedNotes |-> NoNotes]

\* ------------------------------------------------------------------------
\* The recording store (dbService)
\* ------------------------------------------------------------------------
\* (mutation of MergeUpdates: the stored record is replaced by the updates)
MergeUpdatesOnly(data, updates) ==
    [f \in DOMAIN data |-> IF f \in DOMAIN updates THEN updates[f] ELSE NoRecording[f]]

\* const updatedData = { ...data, ...updates }
MergeUpdates(data, updates) ==
    [f \in DOMAIN data |-> IF f \in DOMAIN updates THEN updates[f] ELSE data[f]]

\* updateRecording(id, updates): the store after the request, which is rejected
\* (store unchanged) when the record is absent or the request fails
updateRecording(store, id, updates, ok) ==
    IF ok /\ id \in DOMAIN store
    THEN [store EXCEPT ![id] = MergeUpdates(@, updates)]
    ELSE store

\* getRecording(id): request.result, undefined when absent
getRecording(store, id) == IF id \in DOMAIN store THEN store[id] ELSE NoRecording

\* addRecording(recording): store.add
addRecording(store, id, recording, ok) ==
    IF ok /\ id \notin DOMAIN store
    THEN [j \in DOMAIN store \cup {id} |-> IF j = id THEN recording ELSE store[j]]
    ELSE store

\* outcomes a storage request may have: it succeeds, or the environment fails it
DbOutcomes == IF faults > 0 THEN {TRUE, FALSE} ELSE {TRUE}

\* ------------------------------------------------------------------------
\* transcribeAudio (geminiService)
\* ------------------------------------------------------------------------
\* How one generateContent call raced against withTimeout settles:
\*   "ok"             the response arrives in time
\*   "timer"          withTimeout's timer rejects ('... timed out after N seconds.')
\*   "remoteTimedOut" the call rejects with an Error whose message contains
\*                    'timed out' (a gateway or network timeout reported by the SDK)
\*   "remoteError"    the call rejects with any other Error
AttemptOutcomes == {"ok", "timer", "remoteTimedOut", "remoteError"}

\* error.message.includes('timed out')
MessageIncludesTimedOut(o) == o \in {"timer", "remoteTimedOut"}

\* the catch of the first attempt: retry with gemini-2.5-pro or re-throw
IsEscalated(o) == o # "ok" /\ MessageIncludesTimedOut(o)

\* the model each attempt of one invocation is sent to
AttemptModel(n) == IF n = 1 THEN "gemini-flash-lite-latest" ELSE "gemini-2.5-pro"

\* ------------------------------------------------------------------------
\* Handler invocations
\* ------------------------------------------------------------------------
\* What an invocation has done so far (observation only: nothing reads it)
NoHistory ==
    [progressLog |-> <<>>,     \* progress values it has written to the store
     results |-> <<>>,         \* <<piece index, succeeded>> of each settled transcribeAudio
     writes |-> 0,             \* storage write requests it has issued
     dbFailed |-> FALSE,       \* whether one of its storage requests failed
     shortCircuit |-> FALSE]   \* whether it returned on the 'already completed' test

IdleTask ==
    [kind |-> "none", pc |-> "free", id |-> 0, name |-> "none", rec |-> NoRecording,
     ok |-> TRUE,
     i |-> 0, total |-> 0, chunks |-> NoChunks, captured |-> NoChunks,
     tx |-> <<>>, h |-> NoHistory]

Slots == 1..MaxTasks

\* the handlers that go into processRecording: createAndProcessRecording,
\* handleRetryTranscription, the recorder's onstop
RunKinds == {"upload", "listRetry", "capture"}

FreeSlots == {t \in Slots : tasks[t].pc = "free"}

\* the slot a new invocation takes
NextSlot == CHOOSE t \in FreeSlots : \A o \in FreeSlots : t <= o

\* Date.now() of a new recording: ids grow with time
NextId == Cardinality(DOMAIN db) + 1

\* a handler that has returned: its slot is free again
Finished(tk) == IdleTask

NoWrite == [op |-> "none"]

Write(id, updates) == [op |-> "write", id |-> id, updates |-> updates]

Step(u, tk, w) == [ui |-> u, task |-> tk, write |-> w]

Logged(h, w, ok) ==
    [h EXCEPT !.writes = @ + 1,
              !.dbFailed = @ \/ ~ok,
              !.progressLog = IF ok /\ "progress" \in DOMAIN w.updates
                              THEN Append(@, w.updates.progress) ELSE @]

\* One turn of an invocation: the synchronous code it runs on resuming, up to
\* the next await.  A storage request takes effect when it is issued (IndexedDB
\* runs the read-write transactions of a store in the order they are created).
Commit(t, r) ==
    IF r.write.op = "none"
    THEN /\ ui' = r.ui
         /\ tasks' = [tasks EXCEPT ![t] = r.task]
         /\ UNCHANGED <<db, faults, envVars>>
    ELSE \E ok \in DbOutcomes :
            LET stored == ok /\ r.write.id \in DOMAIN db IN
            /\ db' = updateRecording(db, r.write.id, r.write.updates, ok)
            /\ faults' = IF ok THEN faults ELSE faults - 1
            /\ ui' = r.ui
            /\ tasks' = [tasks EXCEPT ![t] =
                            [r.task EXCEPT !.ok = stored,
                                           !.h = Logged(r.task.h, r.write, stored)]]
            /\ UNCHANGED envVars

\* ------------------------------------------------------------------------
\* processRecording
\* ------------------------------------------------------------------------
\* the state updates at the top of processRecording
RunPrefix(u, id) ==
    [u EXCEPT !.transcriptChunks = NoChunks, !.generatedNotes = NoNotes,
              !.error = FALSE, !.isTranscribing = TRUE, !.activeRecordingId = id]

\* finally { setIsTranscribing(false) }
RunFinally(u) == [u EXCEPT !.isTranscribing = FALSE]

\* (mutation of AlreadyTranscribed: 'length > 1' in place of 'length > 0')
AlreadyTranscribedOffByOne(rec) ==
    rec.status = "completed" /\ Len(rec.transcriptChunks) > 1

\* if (recording.status === 'completed' && recording.transcriptChunks?.length > 0)
AlreadyTranscribed(rec) == rec.status = "completed" /\ Len(rec.transcriptChunks) > 0

\* catch (err) of processRecording once the recording has been loaded
RunCatch(u, tk) ==
    Step([u EXCEPT !.error = TRUE],
         [tk EXCEPT !.pc = "wcatch"],
         Write(tk.id, [status |-> "failed", progress |-> 0]))

\* chunkBlob.size of piece i
ChunkBlobSize(i, size) ==
    LET r == SliceRange(ChunkStart(i), ChunkEnd(i, size), size) IN r[2] - r[1]

\* the head of the piece loop: zero-length pieces are marked completed and
\* skipped ('continue'), without a state update or a write
RECURSIVE SkipEmptyChunks(_, _, _, _)
SkipEmptyChunks(chunks, i, total, size) ==
    IF i < total /\ ChunkBlobSize(i, size) = 0
    THEN SkipEmptyChunks(SetChunk(chunks, i, [status |-> "completed"]), i + 1, total, size)
    ELSE [chunks |-> chunks, i |-> i]

\* const progress = Math.round(((i + 1) / totalChunks) * 95)
PieceProgress(i, total) == RoundDiv((i + 1) * 95, total)

\* transcribeAudio(blobToSend, mimeType, finalPrompt) is called for piece i
IssueTranscribe(tk, i) ==
    [tk EXCEPT !.pc = "tx1", !.tx = <<>>, !.i = i]

\* the piece loop from index i on: the next transcribeAudio call, or the
\* closing status write when every piece has been attempted
RunLoop(u, tk, from) ==
    LET s == SkipEmptyChunks(tk.chunks, from, tk.total, tk.rec.size) IN
    IF s.i < tk.total
    THEN Step(u, IssueTranscribe([tk EXCEPT !.chunks = s.chunks], s.i), NoWrite)
    ELSE Step(u, [tk EXCEPT !.pc = "wfinal", !.i = s.i, !.chunks = s.chunks],
              Write(tk.id, [status |-> IF AllSucceeded(s.chunks)
                                       THEN "completed" ELSE "failed",
                            progress |-> 100]))

\* the single-shot branch after transcribeAudio settled
RunSingleSettled(u, tk, success) ==
    LET chunk == IF success
                 THEN [index |-> 0, content |-> Trim(RawTranscript(tk.id)),
                       status |-> "completed"]
                 ELSE [index |-> 0, content |-> TranscribeErrorMessage,
                       status |-> "failed"]
    IN  Step([u EXCEPT !.transcriptChunks = <<chunk>>],
             [tk EXCEPT !.pc = IF success THEN "wdone" ELSE "wfail"],
             Write(tk.id, [transcriptChunks |-> <<chunk>>,
                           status |-> IF success THEN "completed" ELSE "failed",
                           progress |-> 100]))

\* (mutation of RunPieceSettled: the piece's result is kept in memory and the
\* loop goes on to the next call without the write)
RunPieceSettledUnsaved(u, tk, success) ==
    LET patch == IF success
                 THEN [content |-> Trim(RawTranscript(tk.id)), status |-> "completed"]
                 ELSE [content |-> TranscribeErrorMessage, status |-> "failed"]
        finalChunks == SetChunk(tk.chunks, tk.i, patch)
    IN  RunLoop([u EXCEPT !.transcriptChunks = finalChunks],
                [tk EXCEPT !.chunks = finalChunks], tk.i + 1)

\* the loop body after transcribeAudio settled for piece tk.i
RunPieceSettled(u, tk, success) ==
    LET patch == IF success
                 THEN [content |-> Trim(RawTranscript(tk.id)), status |-> "completed"]
                 ELSE [content |-> TranscribeErrorMessage, status |-> "failed"]
        finalChunks == SetChunk(tk.chunks, tk.i, patch)
    IN  Step([u EXCEPT !.transcriptChunks = finalChunks],
             [tk EXCEPT !.pc = "wpiece", !.chunks = finalChunks],
             Write(tk.id, [transcriptChunks |-> finalChunks,
                           progress |-> PieceProgress(tk.i, tk.total)]))

\* entry: the caller's awaits (addRecording or the reset write, loadRecordings)
\* have settled; processRecording runs to its getRecording
ProcStart(t) ==
    LET tk == tasks[t] IN
    /\ tk.pc = "start"
    /\ IF ~tk.ok
       THEN /\ ui' = [ui EXCEPT !.error = TRUE]
            /\ tasks' = [tasks EXCEPT ![t] = Finished(tk)]
            /\ UNCHANGED <<db, faults, envVars>>
       ELSE \E ok \in DbOutcomes :
            /\ ui' = RunPrefix(ui, tk.id)
            /\ faults' = IF ok THEN faults ELSE faults - 1
            /\ tasks' = [tasks EXCEPT ![t] =
                   [tk EXCEPT !.pc = "got", !.ok = ok,
                              !.h.dbFailed = ~ok,
                              !.rec = IF ok THEN getRecording(db, tk.id)
                                      ELSE NoRecording]]
            /\ UNCHANGED <<db, envVars>>
    /\ UNCHANGED sideVars

\* getRecording settled: not found, already transcribed, or the run begins
ProcGot(t) ==
    LET tk == tasks[t] IN
    /\ tk.pc = "got"
    /\ Commit(t,
         IF ~tk.ok \/ tk.rec.status = "absent"
         THEN Step(RunFinally([ui EXCEPT !.error = TRUE]), Finished(tk), NoWrite)
         ELSE LET u == [ui EXCEPT !.transcriptChunks = tk.rec.transcriptChunks,
                                  !.generatedNotes = tk.rec.formattedNotes]
              IN  IF AlreadyTranscribed(tk.rec)
                  THEN Step(RunFinally(u),
                            Finished([tk EXCEPT !.h.shortCircuit = TRUE]), NoWrite)
                  ELSE Step(u, [tk EXCEPT !.pc = "w5", !.rec = BlobOf(tk.rec)],
                            Write(tk.id, [status |-> "transcribing", progress |-> 5,
                                          transcriptChunks |-> NoChunks])))
    /\ UNCHANGED sideVars

\* the 'transcribing' write settled: single shot or piece plan
ProcW5(t) ==
    LET tk == tasks[t]
        total == TotalChunks(tk.rec.size)
        initialChunks == InitialChunks(total)
    IN
    /\ tk.pc = "w5"
    /\ Commit(t,
         IF ~tk.ok THEN RunCatch(ui, tk)
         ELSE IF IsSinglePiece(tk.rec.size)
         THEN Step(ui, [tk EXCEPT !.pc = "w10", !.total = 1],
                   Write(tk.id, [progress |-> 10]))
         ELSE Step([ui EXCEPT !.transcriptChunks = initialChunks],
                   [tk EXCEPT !.pc = "winit", !.total = total, !.chunks = initialChunks],
                   Write(tk.id, [transcriptChunks |-> initialChunks, progress |-> 10])))
    /\ UNCHANGED sideVars

\* single shot: progress 10 written, the whole blob is submitted
ProcW10(t) ==
    LET tk == tasks[t] IN
    /\ tk.pc = "w10"
    /\ Commit(t,
         IF ~tk.ok THEN RunCatch(ui, tk)
         ELSE Step([ui EXCEPT !.transcriptChunks = <<ProcessingChunk(0)>>],
                   IssueTranscribe(tk, 0), NoWrite))
    /\ UNCHANGED sideVars

\* piece plan persisted: the loop starts
ProcWInit(t) ==
    LET tk == tasks[t] IN
    /\ tk.pc = "winit"
    /\ Commit(t, IF ~tk.ok THEN RunCatch(ui, tk) ELSE RunLoop(ui, tk, 0))
    /\ UNCHANGED sideVars

\* single shot: the 'completed' write settled; its failure lands in the inner
\* catch, which records a failed piece and re-throws
ProcWDone(t) ==
    LET tk == tasks[t]
        failedChunk == [index |-> 0, content |-> StorageErrorMessage, status |-> "failed"]
    IN
    /\ tk.pc = "wdone"
    /\ Commit(t,
         IF tk.ok THEN Step(RunFinally(ui), Finished(tk), NoWrite)
         ELSE Step([ui EXCEPT !.transcriptChunks = <<failedChunk>>],
                   [tk EXCEPT !.pc = "wfail"],
                   Write(tk.id, [transcriptChunks |-> <<failedChunk>>,
                                 status |-> "failed", progress |-> 100])))
    /\ UNCHANGED sideVars

\* single shot: the inner catch re-throws into the outer catch
ProcWFail(t) ==
    LET tk == tasks[t] IN
    /\ tk.pc = "wfail"
    /\ Commit(t, RunCatch(ui, tk))
    /\ UNCHANGED sideVars

\* a piece's result persisted: next piece or closing write
ProcWPiece(t) ==
    LET tk == tasks[t] IN
    /\ tk.pc = "wpiece"
    /\ Commit(t, IF ~tk.ok THEN RunCatch(ui, tk) ELSE RunLoop(ui, tk, tk.i + 1))
    /\ UNCHANGED sideVars

\* the closing status write settled
ProcWFinal(t) ==
    LET tk == tasks[t] IN
    /\ tk.pc = "wfinal"
    /\ Commit(t, IF ~tk.ok THEN RunCatch(ui, tk)
                 ELSE Step(RunFinally(ui), Finished(tk), NoWrite))
    /\ UNCHANGED sideVars

\* the failure handler's write settled (or threw): finally
ProcWCatch(t) ==
    LET tk == tasks[t] IN
    /\ tk.pc = "wcatch"
    /\ Commit(t, Step(RunFinally(ui), Finished(tk), NoWrite))
    /\ UNCHANGED sideVars

\* ------------------------------------------------------------------------
\* handleRetryChunkTranscription
\* ------------------------------------------------------------------------
\* catch (err): built from the transcriptChunks of the render of the click
RetryCatch(u, tk, message) ==
    LET finalChunks == MapChunk(tk.captured, tk.i,
                                [status |-> "failed", content |-> message])
    IN  Step([u EXCEPT !.error = TRUE, !.transcriptChunks = finalChunks],
             [tk EXCEPT !.pc = "rcw", !.captured = NoChunks],
             Write(tk.id, [transcriptChunks |-> finalChunks]))

\* const updatedChunks = transcriptChunks.map(... status: 'processing' ...)
UpdatedChunks(tk) == MapChunk(tk.captured, tk.i, [status |-> "processing"])

\* (mutation of RetrySettled: the retry recomputes the recording's status)
RetrySettledRecomputing(u, tk, success) ==
    LET finalChunks == MapChunk(UpdatedChunks(tk), tk.i,
                                [status |-> "completed",
                                 content |-> Trim(RawTranscript(tk.id))])
    IN  IF success
        THEN Step([u EXCEPT !.transcriptChunks = finalChunks],
                  [tk EXCEPT !.pc = "rw"],
                  Write(tk.id, [transcriptChunks |-> finalChunks,
                                status |-> IF AllSucceeded(finalChunks)
                                           THEN "completed" ELSE "failed"]))
        ELSE RetryCatch(u, tk, TranscribeErrorMessage)

\* transcribeAudio settled for the retried piece
RetrySettled(u, tk, success) ==
    LET finalChunks == MapChunk(UpdatedChunks(tk), tk.i,
                                [status |-> "completed",
                                 content |-> Trim(RawTranscript(tk.id))])
    IN  IF success
        THEN Step([u EXCEPT !.transcriptChunks = finalChunks],
                  [tk EXCEPT !.pc = "rw"],
                  Write(tk.id, [transcriptChunks |-> finalChunks]))
        ELSE RetryCatch(u, tk, TranscribeErrorMessage)

\* getRecording settled: the piece is shown as processing and submitted
RetryGot(t) ==
    LET tk == tasks[t] IN
    /\ tk.pc = "rget"
    /\ Commit(t,
         IF ~tk.ok \/ tk.rec.status = "absent"
         THEN RetryCatch(ui, tk, StorageErrorMessage)
         ELSE Step([ui EXCEPT !.transcriptChunks = UpdatedChunks(tk)],
                   IssueTranscribe([tk EXCEPT !.rec = BlobOf(tk.rec)], tk.i),
                   NoWrite))
    /\ UNCHANGED sideVars

\* the write of the retried piece settled
RetryW(t) ==
    LET tk == tasks[t] IN
    /\ tk.pc = "rw"
    /\ Commit(t, IF tk.ok THEN Step(RunFinally(ui), Finished(tk), NoWrite)
                 ELSE RetryCatch(ui, tk, StorageErrorMessage))
    /\ UNCHANGED sideVars

\* the catch block's write settled (or threw): finally
RetryCW(t) ==
    LET tk == tasks[t] IN
    /\ tk.pc = "rcw"
    /\ Commit(t, Step(RunFinally(ui), Finished(tk), NoWrite))
    /\ UNCHANGED sideVars

\* ------------------------------------------------------------------------
\* transcribeAudio: the two attempts
\* ------------------------------------------------------------------------
\* the caller's continuation once transcribeAudio has returned or thrown
Settled(u, tk0, success) ==
    LET tk == [tk0 EXCEPT !.tx = <<>>,
                          !.h.results = Append(@, [index |-> tk0.i, ok |-> success])]
    IN  IF tk.kind = "retry" THEN RetrySettled(u, tk, success)
        ELSE IF IsSinglePiece(tk.rec.size) THEN RunSingleSettled(u, tk, success)
        ELSE RunPieceSettled(u, tk, success)

\* the first attempt (gemini-flash-lite-latest, 60 s) settles
Tx1(t) ==
    LET tk == tasks[t] IN
    /\ tk.pc = "tx1"
    /\ \E o \in AttemptOutcomes :
         LET tk1 == [tk EXCEPT !.tx = <<o>>] IN
         Commit(t,
           IF o = "ok" THEN Settled(ui, tk1, TRUE)
           ELSE IF IsEscalated(o)
           THEN Step(ui, [tk1 EXCEPT !.pc = "tx2"], NoWrite)
           ELSE Settled(ui, tk1, FALSE))
    /\ UNCHANGED sideVars

\* the retry attempt (gemini-2.5-pro, 120 s) settles
Tx2(t) ==
    LET tk == tasks[t] IN
    /\ tk.pc = "tx2"
    /\ \E o \in AttemptOutcomes :
         Commit(t, Settled(ui, [tk EXCEPT !.tx = Append(@, o)], o = "ok"))
    /\ UNCHANGED sideVars

\* ------------------------------------------------------------------------
\* handleSelectRecording, handleUpdateTranscriptChunk, handleGenerateNotes
\* ------------------------------------------------------------------------
\* getRecording settled for the selected recording
SelectGot(t) ==
    LET tk == tasks[t] IN
    /\ tk.pc = "sel"
    /\ Commit(t,
         IF ~tk.ok \/ tk.rec.status = "absent"
         THEN Step([ui EXCEPT !.error = TRUE], Finished(tk), NoWrite)
         ELSE Step([ui EXCEPT !.activeRecordingId = tk.id,
                              !.transcriptChunks = tk.rec.transcriptChunks,
                              !.generatedNotes = tk.rec.formattedNotes],
                   Finished(tk), NoWrite))
    /\ UNCHANGED sideVars

\* transcriptChunks.map(c => c.content), the parts joined into fullTranscript
FullTranscript(chunks) == [j \in 1..Len(chunks) |-> chunks[j].content]

\* !fullTranscript: the joined string is empty
IsEmptyTranscript(chunks) ==
    \/ Len(chunks) = 0
    \/ Len(chunks) = 1 /\ chunks[1].content.kind = "empty"

\* transcription.trim() is empty (formatNotes throws)
IsBlankTranscript(chunks) ==
    \A j \in 1..Len(chunks) : chunks[j].content.kind = "empty"

\* what formatNotes returns: the model's text, or an error description
FormatOutcomes == {"notes", "errorText"}

NotesOf(chunks, outcome) ==
    [kind |-> outcome,
     of |-> IF \E j \in 1..Len(chunks) : chunks[j].content.of # 0
            THEN chunks[CHOOSE j \in 1..Len(chunks) : chunks[j].content.of # 0].content.of
            ELSE 0]

\* formatNotes settled
NotesFormatted(t) ==
    LET tk == tasks[t] IN
    /\ tk.pc = "fmt"
    /\ \E o \in FormatOutcomes :
         LET notes == NotesOf(tk.captured, o) IN
         Commit(t,
           IF IsBlankTranscript(tk.captured)
           THEN Step([ui EXCEPT !.error = TRUE, !.isGenerating = FALSE],
                     Finished(tk), NoWrite)
           ELSE IF tk.id # 0
           THEN Step([ui EXCEPT !.generatedNotes = notes], [tk EXCEPT !.pc = "nw"],
                     Write(tk.id, [formattedNotes |-> notes]))
           ELSE Step([ui EXCEPT !.generatedNotes = notes, !.isGenerating = FALSE],
                     Finished(tk), NoWrite))
    /\ UNCHANGED sideVars

\* the notes write settled (or threw): finally
NotesW(t) ==
    LET tk == tasks[t] IN
    /\ tk.pc = "nw"
    /\ Commit(t, Step([ui EXCEPT !.isGenerating = FALSE,
                                 !.error = IF tk.ok THEN @ ELSE TRUE],
                      Finished(tk), NoWrite))
    /\ UNCHANGED sideVars

\* ------------------------------------------------------------------------
\* User events
\* ------------------------------------------------------------------------
\* one more user event
Spend == budget > 0 /\ budget' = budget - 1

\* isBusy of the saved list, disabled of the upload input
IsBusy == capture.isRecording \/ ui.isTranscribing

\* handleFileUpload / handleDrop -> processFile -> createAndProcessRecording
Upload(size) ==
    /\ Spend
    /\ ~IsBusy
    /\ FreeSlots # {}
    /\ NextId <= MaxRecordings
    /\ size \in files
    /\ \E ok \in DbOutcomes :
         /\ db' = addRecording(db, NextId, NewRecording(size), ok)
         /\ faults' = IF ok THEN faults ELSE faults - 1
         /\ tasks' = [tasks EXCEPT ![NextSlot] =
                [IdleTask EXCEPT !.kind = "upload", !.pc = "start",
                                 !.id = NextId, !.ok = ok]]
    /\ UNCHANGED <<ui, files, sideVars>>

\* the saved list shows a recording once a loadRecordings() has run after its
\* addRecording: in createAndProcessRecording that is the step that goes on into
\* processRecording
Listed(id) ==
    /\ id \in DOMAIN db
    /\ ~\E t \in Slots : /\ tasks[t].kind = "upload" /\ tasks[t].pc = "start"
                         /\ tasks[t].id = id

\* Retry in the saved list: handleRetryTranscription(id)
ListRetry(id) ==
    /\ Spend
    /\ ~IsBusy
    /\ FreeSlots # {}
    /\ Listed(id)
    /\ \E ok \in DbOutcomes :
         /\ db' = updateRecording(db, id, [transcriptChunks |-> NoChunks,
                                           status |-> "new", progress |-> 0], ok)
         /\ faults' = IF ok THEN faults ELSE faults - 1
         /\ tasks' = [tasks EXCEPT ![NextSlot] =
                [IdleTask EXCEPT !.kind = "listRetry", !.pc = "start",
                                 !.id = id, !.ok = ok]]
    /\ UNCHANGED <<ui, files, sideVars>>

\* a click on a saved recording: handleSelectRecording(id)
Select(id) ==
    /\ Spend
    /\ ~IsBusy
    /\ FreeSlots # {}
    /\ Listed(id)
    /\ \E ok \in DbOutcomes :
         /\ faults' = IF ok THEN faults ELSE faults - 1
         /\ tasks' = [tasks EXCEPT ![NextSlot] =
                [IdleTask EXCEPT !.kind = "select", !.pc = "sel", !.id = id, !.ok = ok,
                                 !.rec = IF ok THEN getRecording(db, id)
                                         ELSE NoRecording]]
    /\ UNCHANGED <<db, ui, files, sideVars>>

\* the pieces TranscriptDisplay shows a Retry button for
RetryableChunks == {ui.transcriptChunks[j].index : j \in
                       {j \in 1..Len(ui.transcriptChunks) :
                           ui.transcriptChunks[j].status = "failed"}}

\* Retry on a failed piece: handleRetryChunkTranscription(chunkIndex)
PieceRetry(chunkIndex) ==
    /\ Spend
    /\ chunkIndex \in RetryableChunks
    /\ ui.activeRecordingId # 0
    /\ FreeSlots # {}
    /\ \E ok \in DbOutcomes :
         /\ faults' = IF ok THEN faults ELSE faults - 1
         /\ tasks' = [tasks EXCEPT ![NextSlot] =
                [IdleTask EXCEPT !.kind = "retry", !.pc = "rget",
                                 !.id = ui.activeRecordingId, !.i = chunkIndex,
                                 !.captured = ui.transcriptChunks, !.ok = ok,
                                 !.rec = IF ok THEN getRecording(db, ui.activeRecordingId)
                                         ELSE NoRecording]]
    /\ ui' = [ui EXCEPT !.error = FALSE, !.isTranscribing = TRUE]
    /\ UNCHANGED <<db, files, sideVars>>

\* the pieces TranscriptDisplay shows a textarea for
EditableChunks == {ui.transcriptChunks[j].index : j \in
                      {j \in 1..Len(ui.transcriptChunks) :
                          ui.transcriptChunks[j].status = "completed"}}

\* typing into a piece's textarea: handleUpdateTranscriptChunk(chunkIndex, text)
Edit(chunkIndex) ==
    LET old == ui.transcriptChunks[CHOOSE j \in 1..Len(ui.transcriptChunks) :
                                      ui.transcriptChunks[j].index = chunkIndex]
        newChunks == MapChunk(ui.transcriptChunks, chunkIndex,
                              [content |-> EditedText(old.content)])
    IN
    /\ Spend
    /\ chunkIndex \in EditableChunks
    /\ IF ui.activeRecordingId # 0
       THEN \E ok \in DbOutcomes :
            /\ db' = updateRecording(db, ui.activeRecordingId,
                                     [transcriptChunks |-> newChunks], ok)
            /\ faults' = IF ok THEN faults ELSE faults - 1
            /\ ui' = [ui EXCEPT !.transcriptChunks = newChunks,
                                !.error = IF ok THEN @ ELSE TRUE]
       ELSE /\ ui' = [ui EXCEPT !.transcriptChunks = newChunks]
            /\ UNCHANGED <<db, faults>>
    /\ UNCHANGED <<tasks, files, sideVars>>

\* the Generate Notes button: handleGenerateNotes
GenerateNotes ==
    /\ Spend
    /\ Len(ui.transcriptChunks) # 0
    /\ ~ui.isGenerating
    /\ ~ui.isTranscribing
    /\ FreeSlots # {}
    /\ IF IsEmptyTranscript(ui.transcriptChunks)
       THEN /\ ui' = [ui EXCEPT !.error = TRUE]
            /\ UNCHANGED tasks
       ELSE /\ ui' = [ui EXCEPT !.isGenerating = TRUE, !.error = FALSE,
                                !.generatedNotes = NoNotes]
            /\ tasks' = [tasks EXCEPT ![NextSlot] =
                   [IdleTask EXCEPT !.kind = "notes", !.pc = "fmt",
                                    !.id = ui.activeRecordingId,
                                    !.captured = ui.transcriptChunks]]
    /\ UNCHANGED <<db, faults, files, sideVars>>

\* the names a recording can be given in the saved list
Names == {"given", "edited"}

\* a name typed in the saved list and saved: handleNameSave of the list, then
\* handleUpdateRecordingName(id, name) up to await getRecording
Rename(id, name) ==
    /\ Spend
    /\ ~IsBusy
    /\ FreeSlots # {}
    /\ Listed(id)
    /\ db[id].name # name
    /\ \E ok \in DbOutcomes :
         /\ faults' = IF ok THEN faults ELSE faults - 1
         /\ tasks' = [tasks EXCEPT ![NextSlot] =
                [IdleTask EXCEPT !.kind = "rename", !.pc = "ren", !.id = id,
                                 !.name = name, !.ok = ok,
                                 !.rec = IF ok THEN getRecording(db, id)
                                         ELSE NoRecording]]
    /\ UNCHANGED <<db, ui, files, sideVars>>

\* handleUpdateRecordingName after getRecording
RenameGot(t) ==
    LET tk == tasks[t] IN
    /\ tk.pc = "ren"
    /\ Commit(t,
         IF ~tk.ok
         THEN Step([ui EXCEPT !.error = TRUE], Finished(tk), NoWrite)
         ELSE IF tk.rec.status # "absent" /\ tk.rec.name # tk.name
         THEN Step(ui, [tk EXCEPT !.pc = "renw"], Write(tk.id, [name |-> tk.name]))
         ELSE Step(ui, Finished(tk), NoWrite))
    /\ UNCHANGED sideVars

\* handleUpdateRecordingName after updateRecording
RenameW(t) ==
    LET tk == tasks[t] IN
    /\ tk.pc = "renw"
    /\ Commit(t, Step([ui EXCEPT !.error = IF tk.ok THEN @ ELSE TRUE],
                      Finished(tk), NoWrite))
    /\ UNCHANGED sideVars

\* typing into the notes textarea: handleUpdateNotes(newNotes), which replaces
\* the pending timer of the automatic save
NotesEdit ==
    LET newNotes == [kind |-> "edited", of |-> ui.generatedNotes.of] IN
    /\ Spend
    /\ ui.generatedNotes.kind # "empty"
    /\ ~ui.isGenerating
    /\ ui' = [ui EXCEPT !.generatedNotes = newNotes,
                        !.noteTimer = IF ui.activeRecordingId # 0
                                      THEN [id |-> ui.activeRecordingId, notes |-> newNotes]
                                      ELSE [id |-> 0, notes |-> NoNotes]]
    /\ UNCHANGED <<db, tasks, faults, files, sideVars>>

\* the timer of handleUpdateNotes fires: updateRecording(activeRecordingId,
\* { formattedNotes: newNotes }) with the values the timer was set with
NotesTimer ==
    /\ ui.noteTimer.id # 0
    /\ \E ok \in DbOutcomes :
         /\ db' = updateRecording(db, ui.noteTimer.id,
                                  [formattedNotes |-> ui.noteTimer.notes], ok)
         /\ faults' = IF ok THEN faults ELSE faults - 1
         /\ ui' = [ui EXCEPT !.noteTimer = [id |-> 0, notes |-> NoNotes],
                             !.error = IF ok /\ ui.noteTimer.id \in DOMAIN db
                                       THEN @ ELSE TRUE]
    /\ UNCHANGED <<tasks, files, budget, sideVars>>

\* ------------------------------------------------------------------------
\* Live recording: handleStartRecording, ondataavailable, onstop, and the
\* 'audioChunks' store
\* ------------------------------------------------------------------------
NoCapture ==
    [recorder |-> "idle",      \* MediaRecorder: idle (none yet), recording, inactive
     isRecording |-> FALSE,    \* the isRecording state of App
     started |-> 0,            \* sessions started so far
     session |-> 0,            \* recordingIdRef.current (0: null)
     chunkIndex |-> 0,         \* chunkIndexRef.current
     emitted |-> 0,            \* fragments the recorder has handed over
     store |-> {},             \* the 'audioChunks' object store
     pend |-> <<>>,            \* ondataavailable handlers awaiting addAudioChunk
     queue |-> "none",         \* events queued by stop(): data, then stop
     fin |-> "none",           \* position of the onstop handler
     finSession |-> 0,         \* its currentRecordingId
     finChunks |-> <<>>,       \* its audioChunks
     finOk |-> TRUE,           \* whether its awaited request succeeded
     slot |-> 0,               \* the processRecording invocation it awaits
     addFailed |-> FALSE,      \* an addAudioChunk was seen to reject (observation)
     payload |-> <<>>]         \* fragments of the blob it inserted (observation)

\* event.data sizes: an empty fragment, a short one, one of MAX bytes
FragmentSizes == {0, 1, MAX_CHUNK_SIZE_BYTES}

\* store.add({ recordingId, chunkIndex, chunk }) succeeds: the request is not
\* failed and the key [recordingId, chunkIndex] is not taken
AddStores(store, recordingId, chunkIndex, ok) ==
    /\ ok
    /\ ~\E e \in store : e.recordingId = recordingId /\ e.chunkIndex = chunkIndex

addAudioChunk(store, recordingId, chunkIndex, chunk, ok) ==
    IF AddStores(store, recordingId, chunkIndex, ok)
    THEN store \cup {[recordingId |-> recordingId, chunkIndex |-> chunkIndex,
                      chunk |-> chunk]}
    ELSE store

\* getAudioChunks(recordingId): the chunks of the key range, sorted by chunkIndex
getAudioChunks(store, recordingId) ==
    LET es == {e \in store : e.recordingId = recordingId} IN
    [j \in 1..Cardinality(es) |->
        (CHOOSE e \in es :
            Cardinality({o \in es : o.chunkIndex < e.chunkIndex}) = j - 1).chunk]

\* clearAudioChunks(recordingId): store.delete(range)
clearAudioChunks(store, recordingId, ok) ==
    IF ok THEN {e \in store : e.recordingId # recordingId} ELSE store

\* new Blob(audioChunks).size
RECURSIVE BlobSize(_)
BlobSize(chunks) ==
    IF chunks = <<>> THEN 0 ELSE Head(chunks).size + BlobSize(Tail(chunks))

\* mediaRecorderRef.current.stop() in handleStopRecording: the recorder goes
\* inactive and queues a last dataavailable followed by stop
StopRecorder(c) ==
    IF c.recorder = "recording"
    THEN [c EXCEPT !.recorder = "inactive", !.isRecording = FALSE, !.queue = "data"]
    ELSE c

\* ondataavailable up to its await: addAudioChunk is issued for a non-empty
\* fragment while a session id is set
Deliver(size, c0) ==
    LET frag == c0.emitted + 1
        c == [c0 EXCEPT !.emitted = frag]
    IN
    /\ IF size > 0 /\ c.session # 0
       THEN \E ok \in DbOutcomes :
              LET stored == AddStores(c.store, c.session, c.chunkIndex, ok) IN
              /\ capture' =
                   [c EXCEPT !.store = addAudioChunk(@, c.session, c.chunkIndex,
                                                     [frag |-> frag, size |-> size], ok),
                             !.pend = Append(@, [frag |-> frag, ok |-> stored])]
              /\ faults' = IF ok THEN faults ELSE faults - 1
       ELSE /\ capture' = c
            /\ UNCHANGED faults
    /\ UNCHANGED <<db, ui, tasks, files, budget, planVars, textVars>>

\* Start recording: handleStartRecording (getUserMedia granted or denied); a
\* session starts once the previous one has been finalised
StartRecording ==
    /\ Spend
    /\ ~capture.isRecording /\ ~ui.isTranscribing
    /\ capture.started < MaxSessions
    /\ capture.queue \in {"none", "done"} /\ capture.fin \in {"none", "done"}
    /\ capture.pend = <<>>
    /\ \E granted \in BOOLEAN :
         /\ ui' = [ui EXCEPT !.transcriptChunks = NoChunks, !.generatedNotes = NoNotes,
                             !.error = ~granted, !.activeRecordingId = 0]
         /\ capture' =
              LET c == [capture EXCEPT !.started = @ + 1, !.session = capture.started + 1,
                                       !.chunkIndex = 0]
              IN  IF granted
                  THEN [c EXCEPT !.recorder = "recording", !.isRecording = TRUE,
                                 !.queue = "none", !.fin = "none"]
                  ELSE c
    /\ UNCHANGED <<db, tasks, faults, files, planVars, textVars>>

\* the recorder's timer hands over a fragment (start(5 * 60 * 1000))
DataAvailable(size) ==
    /\ capture.recorder = "recording"
    /\ capture.emitted < capture.started * MaxFragments
    /\ Deliver(size, capture)

\* Stop recording: handleStopRecording
StopRecording ==
    /\ Spend
    /\ capture.isRecording /\ ~ui.isTranscribing
    /\ capture.recorder = "recording"
    /\ capture' = StopRecorder(capture)
    /\ UNCHANGED <<db, ui, tasks, faults, files, planVars, textVars>>

\* the dataavailable that stop() queued
FinalData(size) ==
    /\ capture.queue = "data"
    /\ Deliver(size, [capture EXCEPT !.queue = "stop"])

\* ondataavailable after its await: chunkIndexRef.current++, or the catch
DataStored ==
    /\ capture.pend # <<>>
    /\ LET h == Head(capture.pend)
           c == [capture EXCEPT !.pend = Tail(@)]
       IN  IF h.ok
           THEN /\ capture' = [c EXCEPT !.chunkIndex = @ + 1]
                /\ UNCHANGED ui
           ELSE /\ capture' = StopRecorder([c EXCEPT !.addFailed = TRUE])
                /\ ui' = [ui EXCEPT !.error = TRUE]
    /\ UNCHANGED <<db, tasks, faults, files, budget, planVars, textVars>>

\* onstop up to await getAudioChunks(currentRecordingId)
OnStop ==
    /\ capture.queue = "stop"
    /\ IF capture.session = 0
       THEN /\ capture' = [capture EXCEPT !.queue = "done", !.fin = "done"]
            /\ ui' = [ui EXCEPT !.error = TRUE]
            /\ UNCHANGED faults
       ELSE /\ \E ok \in DbOutcomes :
                 /\ capture' =
                      [capture EXCEPT !.queue = "done", !.fin = "got",
                                      !.finSession = capture.session, !.finOk = ok,
                                      !.finChunks =
                                          IF ok THEN getAudioChunks(capture.store,
                                                                    capture.session)
                                          ELSE <<>>]
                 /\ faults' = IF ok THEN faults ELSE faults - 1
            /\ UNCHANGED ui
    /\ UNCHANGED <<db, tasks, files, budget, planVars, textVars>>

\* finally of onstop up to await clearAudioChunks(currentRecordingId)
FinallyClear(c) ==
    \E ok \in DbOutcomes :
        /\ capture' = [c EXCEPT !.fin = "clr", !.finOk = ok,
                                !.store = clearAudioChunks(@, c.finSession, ok)]
        /\ faults' = IF ok THEN faults ELSE faults - 1

\* onstop after getAudioChunks (the requests of the fragments, issued before
\* it, have settled): the blob, addRecording, and on into processRecording
FinGot ==
    /\ capture.fin = "got"
    /\ capture.pend = <<>>
    /\ IF ~capture.finOk \/ Len(capture.finChunks) = 0
       THEN /\ ui' = [ui EXCEPT !.error = TRUE]
            /\ FinallyClear(capture)
            /\ UNCHANGED <<db, tasks>>
       ELSE /\ FreeSlots # {}
            /\ \E ok \in DbOutcomes :
                 LET id == capture.finSession
                     stored == ok /\ id \notin DOMAIN db
                 IN
                 /\ db' = addRecording(db, id, NewRecording(BlobSize(capture.finChunks)), ok)
                 /\ faults' = IF ok THEN faults ELSE faults - 1
                 /\ tasks' = [tasks EXCEPT ![NextSlot] =
                        [IdleTask EXCEPT !.kind = "capture", !.pc = "start",
                                         !.id = id, !.ok = stored]]
                 /\ capture' =
                      [capture EXCEPT !.fin = "run", !.slot = NextSlot,
                                      !.payload =
                                          IF stored
                                          THEN [j \in 1..Len(capture.finChunks) |->
                                                   capture.finChunks[j].frag]
                                          ELSE <<>>]
            /\ UNCHANGED ui
    /\ UNCHANGED <<files, budget, planVars, textVars>>

\* processRecording (or the catch of onstop) is over: finally
FinRun ==
    /\ capture.fin = "run"
    /\ tasks[capture.slot].pc = "free"
    /\ FinallyClear(capture)
    /\ UNCHANGED <<db, ui, tasks, files, budget, planVars, textVars>>

\* clearAudioChunks settled: recordingIdRef.current = null (skipped when it
\* rejected)
FinCleared ==
    /\ capture.fin = "clr"
    /\ capture' = [capture EXCEPT !.fin = "done",
                                  !.session = IF capture.finOk THEN 0 ELSE @]
    /\ UNCHANGED <<db, ui, tasks, faults, files, budget, planVars, textVars>>

\* ------------------------------------------------------------------------
\* The piece plan laid out on its own (the loop bounds of processRecording)
\* ------------------------------------------------------------------------
PlanOffsets ==
    {-1, 0, 1, 2, HEADER_SIZE_BYTES - 1, HEADER_SIZE_BYTES, HEADER_SIZE_BYTES + 1,
     2 * HEADER_SIZE_BYTES}

PlanSizes == {n \in {k * STEP + d : k \in 0..MaxStrides, d \in PlanOffsets} : n >= 1}

\* one iteration of 'for (let i = 0; i < totalChunks; i++)' (or the single shot)
PlanPiece ==
    /\ Len(planPieces) < PlanCount(planSize)
    /\ planPieces' = Append(planPieces, RunPieceRange(Len(planPieces), planSize))
    /\ UNCHANGED <<planSize, appVars, capture, textVars>>

\* ------------------------------------------------------------------------
\* Corrections of the transcript and of the notes
\* ------------------------------------------------------------------------
\* A text is the sequence of its characters.
Texts(chars, n) == UNION {[1..k -> chars] : k \in 0..n}

\* String.prototype.substring(start, end), 0 <= start <= end <= length
Substring(s, start, end) == SubSeq(s, start + 1, end)

\* String.prototype.trim
RECURSIVE TrimText(_)
TrimText(s) ==
    IF s = <<>> THEN s
    ELSE IF Head(s) = " " THEN TrimText(Tail(s))
    ELSE IF s[Len(s)] = " " THEN TrimText(SubSeq(s, 1, Len(s) - 1))
    ELSE s

\* String.prototype.toLowerCase
toLowerCase(s) == [i \in DOMAIN s |-> IF s[i] = "A" THEN "a" ELSE s[i]]

\* the character class of escapeRegExp: [.*+?^${}()|[\]\\]
RegExpSpecials == {".", "*", "+", "?", "^", "$", "{", "}", "(", ")", "|", "[", "]", "\\"}

\* string.replace(/[.*+?^${}()|[\]\\]/g, '\\$&')
RECURSIVE escapeRegExp(_)
escapeRegExp(s) ==
    IF s = <<>> THEN <<>>
    ELSE (IF Head(s) \in RegExpSpecials THEN <<"\\", Head(s)>> ELSE <<Head(s)>>)
         \o escapeRegExp(Tail(s))

\* new RegExp(source, 'g'): the atoms of a source made of escaped characters,
\* ordinary characters, '.' (any character) and '$' (end of input)
RECURSIVE RegExp(_)
RegExp(source) ==
    IF source = <<>> THEN <<>>
    ELSE IF Head(source) = "\\" /\ Len(source) > 1
         THEN <<[atom |-> "char", c |-> source[2]]>> \o RegExp(SubSeq(source, 3, Len(source)))
    ELSE IF Head(source) = "." THEN <<[atom |-> "any", c |-> ""]>> \o RegExp(Tail(source))
    ELSE IF Head(source) = "$" THEN <<[atom |-> "end", c |-> ""]>> \o RegExp(Tail(source))
    ELSE <<[atom |-> "char", c |-> Head(source)]>> \o RegExp(Tail(source))

\* the length of the match of the atoms at position pos (from 1) of s, -1 if none
RECURSIVE MatchLength(_, _, _)
MatchLength(atoms, s, pos) ==
    IF atoms = <<>> THEN 0
    ELSE LET a == Head(atoms) IN
         IF a.atom = "end"
         THEN IF pos = Len(s) + 1 THEN MatchLength(Tail(atoms), s, pos) ELSE -1
         ELSE IF pos <= Len(s) /\ (a.atom = "any" \/ a.c = s[pos])
              THEN LET rest == MatchLength(Tail(atoms), s, pos + 1) IN
                   IF rest < 0 THEN -1 ELSE 1 + rest
              ELSE -1

\* GetSubstitution: '$$' stands for '$' and '$&' for the matched text; any
\* other character of the replacement stands for itself
RECURSIVE GetSubstitution(_, _)
GetSubstitution(matched, replacement) ==
    IF replacement = <<>> THEN <<>>
    ELSE IF Head(replacement) = "$" /\ Len(replacement) > 1 /\ replacement[2] = "$"
         THEN <<"$">> \o GetSubstitution(matched, SubSeq(replacement, 3, Len(replacement)))
    ELSE IF Head(replacement) = "$" /\ Len(replacement) > 1 /\ replacement[2] = "&"
         THEN matched \o GetSubstitution(matched, SubSeq(replacement, 3, Len(replacement)))
    ELSE <<Head(replacement)>> \o GetSubstitution(matched, Tail(replacement))

\* String.prototype.replace(regexp with flag g, replacement string), from pos
RECURSIVE ReplaceFrom(_, _, _, _)
ReplaceFrom(s, atoms, replacement, pos) ==
    IF pos > Len(s) + 1 THEN <<>>
    ELSE LET n == MatchLength(atoms, s, pos)
             here == IF pos <= Len(s) THEN <<s[pos]>> ELSE <<>> IN
         IF n > 0
         THEN GetSubstitution(SubSeq(s, pos, pos + n - 1), replacement)
              \o ReplaceFrom(s, atoms, replacement, pos + n)
         ELSE IF n = 0
         THEN GetSubstitution(<<>>, replacement) \o here
              \o ReplaceFrom(s, atoms, replacement, pos + 1)
         ELSE here \o ReplaceFrom(s, atoms, replacement, pos + 1)

\* content.replace(new RegExp(escapeRegExp(oldText), 'g'), newText)
ReplaceAllText(content, oldText, newText) ==
    ReplaceFrom(content, RegExp(escapeRegExp(oldText)), newText, 1)

\* content.substring(0, start) + newText + content.substring(end)
ReplaceRange(content, start, end, newText) ==
    Substring(content, 0, start) \o newText \o Substring(content, end, Len(content))

\* (mutation of AddCorrection: the words are compared as they are)
AddCorrectionCaseSensitive(prev, oldText, newText) ==
    LET trimmedNewText == TrimText(newText) IN
    IF \E i \in DOMAIN prev : prev[i].word = trimmedNewText
    THEN prev
    ELSE Append(prev, [id |-> Len(prev) + 1, word |-> trimmedNewText,
                       description |-> TrimText(oldText)])

\* the updater passed to setVocabulary by a correction with addToVocabulary
AddCorrection(prev, oldText, newText) ==
    LET trimmedNewText == TrimText(newText) IN
    IF \E i \in DOMAIN prev : toLowerCase(prev[i].word) = toLowerCase(trimmedNewText)
    THEN prev
    ELSE Append(prev, [id |-> Len(prev) + 1, word |-> trimmedNewText,
                       description |-> TrimText(oldText)])

NoCorrection ==
    [target |-> "none", oldText |-> <<>>, newText |-> <<>>, replaceAll |-> FALSE,
     addToVocabulary |-> FALSE, chunks |-> <<>>, notes |-> <<>>, vocabulary |-> <<>>]

\* the texts before a recording is shown
NoDoc ==
    [chunks |-> <<>>, notes |-> <<>>, active |-> FALSE, savedChunks |-> <<>>,
     savedNotes |-> <<>>, timer |-> FALSE, last |-> NoCorrection]

\* the correction the user confirms and the texts it found
Correction(target, oldText, newText, replaceAll, addToVocabulary) ==
    [target |-> target, oldText |-> oldText, newText |-> newText,
     replaceAll |-> replaceAll, addToVocabulary |-> addToVocabulary,
     chunks |-> doc.chunks, notes |-> doc.notes, vocabulary |-> vocabulary]

\* handleEditAndUpdateVocabulary, for the selection [start, end) of the piece
\* chunkIndex; the modal's selected text is the selected range of the content
TranscriptCorrection(chunkIndex, start, end, newText, replaceAll, addToVocabulary) ==
    LET oldText == Substring(doc.chunks[chunkIndex + 1], start, end)
        newChunks == [j \in DOMAIN doc.chunks |->
                        IF replaceAll
                        THEN ReplaceAllText(doc.chunks[j], oldText, newText)
                        ELSE IF j - 1 = chunkIndex
                        THEN ReplaceRange(doc.chunks[j], start, end, newText)
                        ELSE doc.chunks[j]] IN
    /\ budget > 0
    /\ TrimText(oldText) # <<>>
    /\ TrimText(newText) # <<>>
    /\ budget' = budget - 1
    /\ \E ok \in (IF doc.active THEN DbOutcomes ELSE {TRUE}) :
          /\ doc' = [doc EXCEPT !.chunks = newChunks,
                                !.savedChunks = IF doc.active /\ ok THEN newChunks ELSE @,
                                !.last = Correction("transcript", oldText, newText,
                                                    replaceAll, addToVocabulary)]
          /\ faults' = IF ok THEN faults ELSE faults - 1
          /\ ui' = IF ok THEN ui ELSE [ui EXCEPT !.error = TRUE]
    /\ vocabulary' = IF addToVocabulary
                     THEN AddCorrection(vocabulary, oldText, newText) ELSE vocabulary
    /\ UNCHANGED <<db, tasks, files, planVars, capture>>

\* handleNoteEditAndUpdateVocabulary with the handleUpdateNotes it calls, which
\* restarts the one-second timer of the automatic save
NoteCorrection(start, end, newText, replaceAll, addToVocabulary) ==
    LET oldText == Substring(doc.notes, start, end)
        updatedNotes == IF replaceAll
                        THEN ReplaceAllText(doc.notes, oldText, newText)
                        ELSE ReplaceRange(doc.notes, start, end, newText) IN
    /\ budget > 0
    /\ TrimText(oldText) # <<>>
    /\ TrimText(newText) # <<>>
    /\ budget' = budget - 1
    /\ doc' = [doc EXCEPT !.notes = updatedNotes,
                          !.timer = doc.active,
                          !.last = Correction("notes", oldText, newText,
                                              replaceAll, addToVocabulary)]
    /\ vocabulary' = IF addToVocabulary
                     THEN AddCorrection(vocabulary, oldText, newText) ELSE vocabulary
    /\ UNCHANGED <<db, ui, tasks, faults, files, planVars, capture>>

\* the timer of handleUpdateNotes fires: updateRecording({ formattedNotes })
NotesAutoSave ==
    /\ doc.timer
    /\ \E ok \in DbOutcomes :
          /\ doc' = [doc EXCEPT !.timer = FALSE,
                                !.savedNotes = IF ok THEN doc.notes ELSE @]
          /\ faults' = IF ok THEN faults ELSE faults - 1
          /\ ui' = IF ok THEN ui ELSE [ui EXCEPT !.error = TRUE]
    /\ UNCHANGED <<db, tasks, files, budget, planVars, capture, vocabulary>>

\* ------------------------------------------------------------------------
\* Specifications
\* ------------------------------------------------------------------------
InitUi ==
    [transcriptChunks |-> NoChunks, activeRecordingId |-> 0, isTranscribing |-> FALSE,
     isGenerating |-> FALSE, generatedNotes |-> NoNotes, error |-> FALSE,
     noteTimer |-> [id |-> 0, notes |-> NoNotes]]

InitApp ==
    /\ db = [id \in {} |-> NoRecording]
    /\ ui = InitUi
    /\ tasks = [t \in Slots |-> IdleTask]

\* the application with its user events and every interleaving of its
\* handler invocations; payloads of one piece and of two pieces
Init ==
    /\ InitApp
    /\ budget = MaxEvents
    /\ faults = 0
    /\ files = {MAX_CHUNK_SIZE_BYTES, MAX_CHUNK_SIZE_BYTES + 1}
    /\ planSize = 0
    /\ planPieces = <<>>
    /\ capture = NoCapture
    /\ doc = NoDoc
    /\ vocabulary = <<>>

Next ==
    \/ \E size \in files : Upload(size)
    \/ \E id \in DOMAIN db : ListRetry(id)
    \/ \E id \in DOMAIN db : Select(id)
    \/ \E k \in RetryableChunks : PieceRetry(k)
    \/ \E k \in EditableChunks : Edit(k)
    \/ GenerateNotes
    \/ NotesEdit
    \/ NotesTimer
    \/ \E id \in DOMAIN db : \E name \in Names : Rename(id, name)
    \/ \E t \in Slots :
         \/ ProcStart(t) \/ ProcGot(t) \/ ProcW5(t) \/ ProcW10(t) \/ ProcWInit(t)
         \/ ProcWDone(t) \/ ProcWFail(t) \/ ProcWPiece(t) \/ ProcWFinal(t)
         \/ ProcWCatch(t) \/ Tx1(t) \/ Tx2(t)
         \/ RetryGot(t) \/ RetryW(t) \/ RetryCW(t)
         \/ SelectGot(t) \/ NotesFormatted(t) \/ NotesW(t)
         \/ RenameGot(t) \/ RenameW(t)

Spec == Init /\ [][Next]_vars

\* uploads and their runs alone, with storage failures: payloads of one, two,
\* three and eleven pieces
InitRun ==
    /\ InitApp
    /\ budget = MaxEvents
    /\ faults = MaxDbFailures
    /\ files = {MAX_CHUNK_SIZE_BYTES, MAX_CHUNK_SIZE_BYTES + 1,
                2 * STEP + HEADER_SIZE_BYTES + 1, 10 * STEP + HEADER_SIZE_BYTES + 1}
    /\ planSize = 0
    /\ planPieces = <<>>
    /\ capture = NoCapture
    /\ doc = NoDoc
    /\ vocabulary = <<>>

NextRun ==
    \/ \E size \in files : Upload(size)
    \/ \E t \in Slots :
         \/ ProcStart(t) \/ ProcGot(t) \/ ProcW5(t) \/ ProcW10(t) \/ ProcWInit(t)
         \/ ProcWDone(t) \/ ProcWFail(t) \/ ProcWPiece(t) \/ ProcWFinal(t)
         \/ ProcWCatch(t) \/ Tx1(t) \/ Tx2(t)

SpecRun == InitRun /\ [][NextRun]_vars

\* the piece plan of every payload size around the stride boundaries
InitPlan ==
    /\ InitApp
    /\ budget = MaxEvents
    /\ faults = 0
    /\ files = {}
    /\ planSize \in PlanSizes
    /\ planPieces = <<>>
    /\ capture = NoCapture
    /\ doc = NoDoc
    /\ vocabulary = <<>>

NextPlan == PlanPiece

SpecPlan == InitPlan /\ [][NextPlan]_vars

\* a live recording and the run its stop handler starts, with storage failures
InitCapture ==
    /\ InitApp
    /\ budget = MaxEvents
    /\ faults = MaxDbFailures
    /\ files = {}
    /\ planSize = 0
    /\ planPieces = <<>>
    /\ capture = NoCapture
    /\ doc = NoDoc
    /\ vocabulary = <<>>

NextCapture ==
    \/ StartRecording
    \/ StopRecording
    \/ \E size \in FragmentSizes : DataAvailable(size)
    \/ \E size \in FragmentSizes : FinalData(size)
    \/ DataStored
    \/ OnStop
    \/ FinGot
    \/ FinRun
    \/ FinCleared
    \/ \E t \in Slots :
         \/ ProcStart(t) \/ ProcGot(t) \/ ProcW5(t) \/ ProcW10(t) \/ ProcWInit(t)
         \/ ProcWDone(t) \/ ProcWFail(t) \/ ProcWPiece(t) \/ ProcWFinal(t)
         \/ ProcWCatch(t) \/ Tx1(t) \/ Tx2(t)

SpecCapture == InitCapture /\ [][NextCapture]_vars

\* the characters of the texts of the replacement behaviours: an ordinary
\* character and characters special to patterns and to replacement strings
ReplaceChars == {"a", ".", "$", "&"}

\* the characters of the texts of the vocabulary behaviours
VocabularyChars == {"a", "A", " "}

\* a selection the user can make in a text: a range whose text is not blank
Selections(s) ==
    {r \in (0..Len(s)) \X (0..Len(s)) : r[1] < r[2] /\ TrimText(Substring(s, r[1], r[2])) # <<>>}

Corrections(newTexts, modes, adds) ==
    \/ \E k \in 0..(Len(doc.chunks) - 1) : \E r \in Selections(doc.chunks[k + 1]) :
       \E newText \in newTexts : \E replaceAll \in modes : \E add \in adds :
          TranscriptCorrection(k, r[1], r[2], newText, replaceAll, add)
    \/ \E r \in Selections(doc.notes) :
       \E newText \in newTexts : \E replaceAll \in modes : \E add \in adds :
          NoteCorrection(r[1], r[2], newText, replaceAll, add)
    \/ NotesAutoSave

\* one correction of a transcript of two pieces and of its notes
InitReplace ==
    /\ InitApp
    /\ budget = 1
    /\ faults = 0
    /\ files = {}
    /\ planSize = 0
    /\ planPieces = <<>>
    /\ capture = NoCapture
    /\ \E c1 \in Texts(ReplaceChars, MaxContent) : \E c2 \in Texts(ReplaceChars, 1) :
       \E n \in Texts(ReplaceChars, 1) :
          doc = [NoDoc EXCEPT !.chunks = <<c1, c2>>, !.notes = n, !.active = TRUE,
                              !.savedChunks = <<c1, c2>>, !.savedNotes = n]
    /\ vocabulary = <<>>

NextReplace == Corrections(Texts(ReplaceChars, MaxNewText), BOOLEAN, {FALSE})

SpecReplace == InitReplace /\ [][NextReplace]_vars

\* sequences of corrections, over a vocabulary the user may have filled
InitVocabulary ==
    /\ InitApp
    /\ budget = MaxEvents
    /\ faults = 0
    /\ files = {}
    /\ planSize = 0
    /\ planPieces = <<>>
    /\ capture = NoCapture
    /\ doc = [NoDoc EXCEPT !.chunks = << <<"a", " ">> >>, !.notes = <<"A">>,
                           !.active = TRUE, !.savedChunks = << <<"a", " ">> >>,
                           !.savedNotes = <<"A">>]
    /\ vocabulary \in {<<>>, <<[id |-> 1, word |-> <<"A">>, description |-> <<>>]>>}

NextVocabulary == Corrections(Texts(VocabularyChars, MaxNewText), {FALSE}, {TRUE})

SpecVocabulary == InitVocabulary /\ [][NextVocabulary]_vars

\* a recording of `size` bytes whose run completed every piece
CompletedRecording(id, size) ==
    [NewRecording(size) EXCEPT
        !.status = "completed", !.progress = 100,
        !.transcriptChunks = [j \in 1..PlanCount(size) |->
            [index |-> j - 1, content |-> Trim(RawTranscript(id)), status |-> "completed"]]]

\* the application opened on a store that holds two transcribed recordings, of
\* two pieces and of one piece; full restarts, piece retries and edits
InitTwo ==
    /\ db = [id \in {1, 2} |-> CompletedRecording(id,
                IF id = 1 THEN MAX_CHUNK_SIZE_BYTES + 1 ELSE MAX_CHUNK_SIZE_BYTES)]
    /\ ui = InitUi
    /\ tasks = [t \in Slots |-> IdleTask]
    /\ budget = MaxEvents + 1
    /\ faults = 0
    /\ files = {}
    /\ planSize = 0
    /\ planPieces = <<>>
    /\ capture = NoCapture
    /\ doc = NoDoc
    /\ vocabulary = <<>>

NextTwo ==
    \/ \E id \in DOMAIN db : ListRetry(id)
    \/ \E id \in DOMAIN db : Select(id)
    \/ \E k \in RetryableChunks : PieceRetry(k)
    \/ \E k \in EditableChunks : Edit(k)
    \/ GenerateNotes
    \/ NotesEdit
    \/ NotesTimer
    \/ \E t \in Slots :
         \/ ProcStart(t) \/ ProcGot(t) \/ ProcW5(t) \/ ProcW10(t) \/ ProcWInit(t)
         \/ ProcWDone(t) \/ ProcWFail(t) \/ ProcWPiece(t) \/ ProcWFinal(t)
         \/ ProcWCatch(t) \/ Tx1(t) \/ Tx2(t)
         \/ RetryGot(t) \/ RetryW(t) \/ RetryCW(t)
         \/ SelectGot(t) \/ NotesFormatted(t) \/ NotesW(t)

SpecTwo == InitTwo /\ [][NextTwo]_vars

\* ------------------------------------------------------------------------
\* Properties
\* ------------------------------------------------------------------------
\* the invocations that are inside processRecording
InRun(t) == tasks[t].kind \in RunKinds /\ tasks[t].pc \notin {"free", "start"}

\* the invocations that are inside handleRetryChunkTranscription
InPieceRetry(t) == tasks[t].kind = "retry" /\ tasks[t].pc # "free"

\* slot t takes a turn in this step
Turn(t) == tasks'[t] # tasks[t] /\ tasks[t].pc # "free"

\* slot t's handler returns in this step
Returns(t) == tasks[t].pc # "free" /\ tasks'[t].pc = "free"

\* the persisted piece with index j ("none" when there is none)
PieceAt(chunks, j) ==
    IF \E m \in 1..Len(chunks) : chunks[m].index = j
    THEN chunks[CHOOSE m \in 1..Len(chunks) : chunks[m].index = j]
    ELSE [index |-> j, content |-> NoText, status |-> "none"]

\* C1 (as claimed): when the plan of a payload is laid out, its pieces
\* partition [0, totalSize) with no gap, no overlap and no byte left over; there
\* is one piece [0, totalSize) up to MAX, and ceil((totalSize - HEADER) / STEP)
\* pieces [i*STEP, min((i+1)*STEP, totalSize)) above it.
C1_PlanCoverage ==
    Len(planPieces) = PlanCount(planSize) /\ planSize >= 1 =>
        LET n == Len(planPieces) IN
        /\ n >= 1
        /\ planPieces[1][1] = 0
        /\ \A j \in 1..n : planPieces[j][1] < planPieces[j][2]
        /\ \A j \in 1..(n - 1) : planPieces[j][2] = planPieces[j + 1][1]
        /\ planPieces[n][2] = planSize
        /\ planSize <= 10485760 => n = 1
        /\ planSize > 10485760 =>
              /\ n = CeilDiv(planSize - 10240, 10475520)
              /\ \A j \in 1..n :
                    planPieces[j] = <<(j - 1) * 10475520, Min(j * 10475520, planSize)>>

\* C2: an invocation of processRecording that loads a recording whose status is
\* completed and whose piece array is non-empty writes nothing to the store,
\* calls the transcription service never, and returns with the loaded pieces
\* shown: the store is the same after each of its turns.
C2_IdempotentReentry ==
    [][\A t \in Slots :
         LET tk == tasks[t] IN
         /\ ( /\ Turn(t) /\ tk.kind \in RunKinds /\ tk.pc = "start"
              /\ tk.ok /\ tk.id \in DOMAIN db
              /\ db[tk.id].status = "completed"
              /\ Len(db[tk.id].transcriptChunks) > 0 )
            => ( /\ db' = db
                 /\ tasks'[t].pc = "got"
                 /\ tasks'[t].ok => tasks'[t].rec = db[tk.id] )
         /\ ( /\ Turn(t) /\ tk.pc = "got" /\ tk.ok
              /\ tk.rec.status = "completed"
              /\ Len(tk.rec.transcriptChunks) > 0 )
            => ( /\ db' = db
                 /\ tk.h.writes = 0
                 /\ Returns(t)
                 /\ ui'.transcriptChunks = tk.rec.transcriptChunks
                 /\ ~ui'.isTranscribing )
      ]_vars

\* C2 witness: processRecording has loaded a completed recording with pieces
C2_Witness ==
    \E t \in Slots :
        /\ tasks[t].pc = "got" /\ tasks[t].ok
        /\ tasks[t].rec.status = "completed"
        /\ Len(tasks[t].rec.transcriptChunks) > 0

\* the closing status write of a multi-piece run has been stored
RunClosed(t) ==
    /\ InRun(t) /\ tasks[t].pc = "wfinal" /\ tasks[t].ok
    /\ tasks[t].id \in DOMAIN db

\* C3: when a multi-piece run whose storage requests succeed has made its closing
\* write, every piece of the plan has been attempted exactly once in ascending
\* order; a piece whose call failed is persisted failed with the error message, a
\* piece whose call succeeded is persisted completed with the trimmed transcript;
\* the status is completed if no call failed and failed otherwise; progress is 100.
C3_PartialFailureContainment ==
    \A t \in Slots :
        RunClosed(t) =>
            LET tk == tasks[t]
                rec == db[tk.id]
                r == tk.h.results
                n == CeilDiv(rec.size - HEADER_SIZE_BYTES, STEP)
            IN
            /\ Len(r) = n
            /\ \A j \in 1..n : r[j].index = j - 1
            /\ Len(rec.transcriptChunks) = n
            /\ \A j \in 1..n :
                  rec.transcriptChunks[j] =
                     IF r[j].ok
                     THEN [index |-> j - 1, status |-> "completed",
                           content |-> [kind |-> "text", of |-> tk.id, trimmed |-> TRUE]]
                     ELSE [index |-> j - 1, status |-> "failed",
                           content |-> TranscribeErrorMessage]
            /\ rec.status = IF \A j \in 1..n : r[j].ok THEN "completed" ELSE "failed"
            /\ rec.progress = 100

\* C3 witness: a three-piece run has closed with a failed middle piece only
C3_Witness ==
    \E t \in Slots :
        /\ RunClosed(t)
        /\ Len(tasks[t].h.results) = 3
        /\ tasks[t].h.results[1].ok
        /\ ~tasks[t].h.results[2].ok
        /\ tasks[t].h.results[3].ok

\* C4 (as claimed): no turn of a piece retry of piece k changes the persisted
\* piece j of its recording for any j # k, whatever was persisted while its remote
\* call was in flight.
C4_SiblingPreservation ==
    [][\A t \in Slots :
         (InPieceRetry(t) /\ Turn(t) /\ tasks[t].id \in DOMAIN db) =>
            LET before == db[tasks[t].id].transcriptChunks
                after == db'[tasks[t].id].transcriptChunks
            IN  \A j \in 0..(Len(before) + Len(after)) :
                    j # tasks[t].i => PieceAt(after, j) = PieceAt(before, j)
      ]_vars

\* C5 (as claimed): in every reachable state a persisted recording whose status
\* is completed has every piece of its persisted piece array in status completed.
C5_CompletedMeansAllCompleted ==
    \A id \in DOMAIN db :
        db[id].status = "completed" =>
            \A j \in 1..Len(db[id].transcriptChunks) :
                db[id].transcriptChunks[j].status = "completed"

\* C6 (as claimed): the progress values one invocation of processRecording has
\* written to the store, in the order written, never decrease, and each is an
\* integer in 0..100.
C6_ProgressMonotonic ==
    \A t \in Slots :
        LET p == tasks[t].h.progressLog IN
        \A j \in 1..Len(p) :
            /\ p[j] \in 0..100
            /\ j > 1 => p[j - 1] <= p[j]

\* C7 (as claimed): at most one transcription run or piece retry is between its
\* start and its completion at any time.
C7_RunMutualExclusion ==
    Cardinality({t \in Slots : InRun(t) \/ InPieceRetry(t)}) <= 1

\* C8 (as claimed): transcribeAudio makes at most two remote calls, and makes the
\* second one only if the first one ran into the 60 s timer; a first attempt that
\* fails with an error of the remote service is not retried.
C8_EscalationOnlyOnTimeout ==
    \A t \in Slots :
        /\ Len(tasks[t].tx) <= 2
        /\ tasks[t].pc = "tx2" => tasks[t].tx = <<"timer">>

\* C9 (as claimed): the transcript handleGenerateNotes submits to the formatting
\* service holds no content of a piece whose status is failed or processing.
C9_NotesFromCompletedOnly ==
    \A t \in Slots :
        (tasks[t].kind = "notes" /\ tasks[t].pc = "fmt") =>
            LET chunks == tasks[t].captured
                submitted == FullTranscript(chunks)
            IN  \A j \in 1..Len(chunks) :
                    (chunks[j].status # "completed" /\ chunks[j].content # NoText) =>
                        \A m \in 1..Len(submitted) : submitted[m] # chunks[j].content

\* every remote call of the invocation so far succeeded
NoRemoteFailure(t) ==
    \A j \in 1..Len(tasks[t].h.results) : tasks[t].h.results[j].ok

\* C10 (as claimed): when an invocation of processRecording on an existing
\* recording returns after one of its storage requests failed, the persisted
\* status is failed with progress 0; and no invocation returns leaving the
\* persisted status at transcribing.
C10_StorageFailureIsTerminal ==
    [][\A t \in Slots :
         (InRun(t) /\ Returns(t) /\ tasks[t].id \in DOMAIN db) =>
            /\ db'[tasks[t].id].status # "transcribing"
            /\ (tasks[t].h.dbFailed /\ NoRemoteFailure(t)) =>
                  /\ db'[tasks[t].id].status = "failed"
                  /\ db'[tasks[t].id].progress = 0
      ]_vars

\* C11 (as claimed): when the payload fits in one piece and its transcription
\* call fails, processRecording returns with the recording persisted as status
\* failed, progress 100, and exactly one piece: index 0, failed, the error
\* message as content.
C11_SinglePieceFailureOutcome ==
    [][\A t \in Slots :
         ( /\ InRun(t) /\ Returns(t) /\ tasks[t].id \in DOMAIN db
           /\ db[tasks[t].id].size <= MAX_CHUNK_SIZE_BYTES
           /\ ~tasks[t].h.dbFailed
           /\ tasks[t].h.results = <<[index |-> 0, ok |-> FALSE]>> ) =>
            LET rec == db'[tasks[t].id] IN
            /\ rec.status = "failed"
            /\ rec.progress = 100
            /\ rec.transcriptChunks =
                 <<[index |-> 0, status |-> "failed", content |-> TranscribeErrorMessage]>>
      ]_vars

\* the remote call of a piece of a multi-piece run is in flight
InFlightPiece(tk) ==
    /\ tk.kind \in RunKinds
    /\ tk.pc \in {"tx1", "tx2"}
    /\ tk.rec.size > MAX_CHUNK_SIZE_BYTES

\* the store holds the result of every piece before the one in flight
EarlierPiecesPersisted(tk, store) ==
    /\ tk.id \in DOMAIN store
    /\ Len(tk.h.results) = tk.i
    /\ \A j \in 1..tk.i :
         /\ tk.h.results[j].index = j - 1
         /\ PieceAt(store[tk.id].transcriptChunks, j - 1) =
              IF tk.h.results[j].ok
              THEN [index |-> j - 1, status |-> "completed",
                    content |-> [kind |-> "text", of |-> tk.id, trimmed |-> TRUE]]
              ELSE [index |-> j - 1, status |-> "failed",
                    content |-> TranscribeErrorMessage]

\* C12: in a multi-piece run (the only handler in flight), whenever the remote
\* call of piece i is in flight the persisted piece array holds the result
\* (completed with the trimmed transcript, or failed with the error message) of
\* every piece 0..i-1, so halting loses at most the piece in flight; and the call
\* for piece i >= 1 is issued only by the step that resumes from the acknowledged
\* write of the previous piece's result.
C12_CrashDurability ==
    [][\A t \in Slots :
         /\ InFlightPiece(tasks'[t]) => EarlierPiecesPersisted(tasks'[t], db')
         /\ ( /\ InFlightPiece(tasks'[t]) /\ tasks'[t].pc = "tx1" /\ tasks'[t].i >= 1
              /\ (tasks[t].pc # "tx1" \/ tasks[t].i # tasks'[t].i) )
            => (tasks[t].pc = "wpiece" /\ tasks[t].ok /\ ~tasks[t].h.dbFailed)
      ]_vars

\* C12 witness: piece 2 of a run is in flight after piece 0 failed and piece 1
\* succeeded
C12_Witness ==
    \E t \in Slots :
        /\ InFlightPiece(tasks[t]) /\ tasks[t].i = 2
        /\ Len(tasks[t].h.results) = 2
        /\ ~tasks[t].h.results[1].ok /\ tasks[t].h.results[2].ok

\* C13 (as claimed): once an addAudioChunk of a live recording has rejected, no
\* Recording of that session is inserted into the recording store, no
\* transcription run is started for it, and the error is still shown when the
\* stop handling has finished.
C13_NoTruncatedPayload ==
    capture.addFailed =>
        /\ capture.started \notin DOMAIN db
        /\ ~\E t \in Slots : tasks[t].kind = "capture" /\ InRun(t)
        /\ capture.fin = "done" => ui.error


\* C14: a confirmed correction with addToVocabulary set, of the transcript or
\* of the notes, leaves the vocabulary as it was when the trimmed new text
\* equals, ignoring case, the word of an item of the list; otherwise it appends
\* exactly one item whose word is the trimmed new text.  An appended item never
\* matches an earlier item ignoring case.
C14_VocabularyDedup ==
    (doc.last.target # "none" /\ doc.last.addToVocabulary) =>
        LET prev == doc.last.vocabulary
            word == TrimText(doc.last.newText) IN
        /\ IF \E i \in DOMAIN prev : toLowerCase(prev[i].word) = toLowerCase(word)
           THEN vocabulary = prev
           ELSE /\ Len(vocabulary) = Len(prev) + 1
                /\ SubSeq(vocabulary, 1, Len(prev)) = prev
                /\ vocabulary[Len(vocabulary)].word = word
        /\ \A j \in (Len(prev) + 1)..Len(vocabulary) : \A i \in 1..(j - 1) :
              toLowerCase(vocabulary[i].word) # toLowerCase(vocabulary[j].word)

\* after earlier corrections filled the list, a correction of the notes whose
\* new text differs from a listed word only by case and by surrounding blanks
\* has left the list as it was
C14_Witness ==
    /\ doc.last.target = "notes"
    /\ doc.last.addToVocabulary
    /\ Len(vocabulary) >= 2
    /\ vocabulary = doc.last.vocabulary
    /\ doc.last.newText # TrimText(doc.last.newText)
    /\ \E i \in DOMAIN vocabulary :
          /\ vocabulary[i].word # TrimText(doc.last.newText)
          /\ toLowerCase(vocabulary[i].word) = toLowerCase(TrimText(doc.last.newText))


\* the text obtained from s by replacing every non-overlapping occurrence of
\* oldText, scanned left to right from pos, by newText as it is
RECURSIVE C15_Literal(_, _, _, _)
C15_Literal(s, oldText, newText, pos) ==
    IF pos > Len(s) THEN <<>>
    ELSE IF pos + Len(oldText) - 1 <= Len(s)
            /\ SubSeq(s, pos, pos + Len(oldText) - 1) = oldText
         THEN newText \o C15_Literal(s, oldText, newText, pos + Len(oldText))
         ELSE <<s[pos]>> \o C15_Literal(s, oldText, newText, pos + 1)

\* C15: a correction in replaceAll mode turns the content of every piece, or
\* the notes text, into the text in which every non-overlapping literal
\* occurrence of the old text, scanned left to right, is replaced by the new
\* text verbatim, whatever characters the two texts are made of.
C15_LiteralReplaceAll ==
    doc.last.replaceAll =>
        /\ doc.last.target = "transcript" =>
              /\ Len(doc.chunks) = Len(doc.last.chunks)
              /\ \A j \in DOMAIN doc.chunks :
                    doc.chunks[j] =
                        C15_Literal(doc.last.chunks[j], doc.last.oldText, doc.last.newText, 1)
        /\ doc.last.target = "notes" =>
              doc.notes = C15_Literal(doc.last.notes, doc.last.oldText, doc.last.newText, 1)


\* C16: once a recording is inserted it stays in the store under its id with
\* the payload it was inserted with (the size stands for the blob and the size
\* and type derived from it), whatever runs, piece retries, transcript edits,
\* notes generations or edits and renames write.
C16_PayloadImmutable ==
    [][\A id \in DOMAIN db : id \in DOMAIN db' /\ db'[id].size = db[id].size]_vars

\* a recording that was transcribed, renamed and given notes still has its payload
C16_Witness ==
    \E id \in DOMAIN db :
        /\ db[id].status = "completed"
        /\ db[id].name = "edited"
        /\ db[id].formattedNotes.kind # "empty"
        /\ db[id].size \in files


\* C17: every persisted piece array has piece i at position i (or is empty),
\* and an array that has the length of its recording's plan keeps that length
\* in every write, of a run, of a piece retry or of a transcript edit, until a
\* full restart empties it.
C17_PieceArrayShape ==
    [][\A id \in DOMAIN db' :
          LET chunks == db'[id].transcriptChunks IN
          /\ \A j \in 1..Len(chunks) : chunks[j].index = j - 1
          /\ (id \in DOMAIN db
                /\ Len(db[id].transcriptChunks) = PlanCount(db[id].size))
             => Len(chunks) \in {0, PlanCount(db[id].size)}]_vars


\* C18: while the remote call of handleRetryChunkTranscription(k) is in flight,
\* piece k has status processing in the piece array on screen and in the
\* persisted piece array of the recording the retry works on.
C18_RetryMarksProcessing ==
    \A t \in Slots :
        (tasks[t].kind = "retry" /\ tasks[t].pc \in {"tx1", "tx2"}) =>
            /\ PieceAt(ui.transcriptChunks, tasks[t].i).status = "processing"
            /\ PieceAt(getRecording(db, tasks[t].id).transcriptChunks,
                       tasks[t].i).status = "processing"


\* C19: no step of handleRetryChunkTranscription, whatever its outcome,
\* changes the persisted status or progress of a recording: the handler writes
\* the piece array only.
C19_RetryFrame ==
    [][\A t \in Slots :
          (tasks'[t] # tasks[t] /\ "retry" \in {tasks[t].kind, tasks'[t].kind}) =>
              /\ DOMAIN db' = DOMAIN db
              /\ \A id \in DOMAIN db :
                    /\ db'[id].status = db[id].status
                    /\ db'[id].progress = db[id].progress]_vars

\* after the run and the retry have returned, the recording has status failed
\* while its pieces are all completed
C19_Witness ==
    /\ \A t \in Slots : tasks[t].pc = "free"
    /\ \E id \in DOMAIN db :
          /\ db[id].status = "failed"
          /\ Len(db[id].transcriptChunks) > 0
          /\ AllSucceeded(db[id].transcriptChunks)


\* C20: for every piece the full run lays out for a payload, the piece retry
\* submits the same byte range, with the header prepended or not as the run
\* does; this includes piece 0 of a payload that fits in a single piece.
C20_RetrySameBytes ==
    \A j \in 1..Len(planPieces) :
        RetrySubmission(j - 1, planSize) =
            [range |-> planPieces[j], header |-> RunHeader(j - 1, planSize)]


C28_PlannedPiecesNonEmpty ==
    planSize > MAX_CHUNK_SIZE_BYTES =>
        \A j \in 1..Len(planPieces) :
            /\ ChunkStart(j - 1) < planSize
            /\ planPieces[j][2] - planPieces[j][1] >= 1
            /\ ChunkBlobSize(j - 1, planSize) # 0

\* a whole plan of several pieces whose last piece is the shortest a plan can
\* end with, HEADER + 1 bytes
C28_Witness ==
    /\ planSize > MAX_CHUNK_SIZE_BYTES
    /\ Len(planPieces) = PlanCount(planSize)
    /\ Len(planPieces) >= 2
    /\ planPieces[Len(planPieces)][2] - planPieces[Len(planPieces)][1]
          = HEADER_SIZE_BYTES + 1


\* C23: once the stop handler of a live recording has completed, however its
\* finalization went, the fragment store holds no fragment of that session;
\* and the payload of the recording it inserted is made of exactly the
\* fragments stored for the session, in ascending chunkIndex order.
C23_FragmentsConsumed ==
    /\ (capture.fin = "done" /\ capture.finSession # 0) =>
          ~\E e \in capture.store : e.recordingId = capture.finSession
    /\ (capture.fin = "run" /\ capture.finSession \in DOMAIN db) =>
          LET stored == getAudioChunks(capture.store, capture.finSession) IN
          /\ capture.payload = [j \in 1..Len(stored) |-> stored[j].frag]
          /\ \A j \in 1..(Len(capture.payload) - 1) :
                capture.payload[j] < capture.payload[j + 1]
          /\ db[capture.finSession].size = BlobSize(stored)


\* C24: the notes persisted for a recording are the formatting of its own
\* pieces or an edit of its own notes, never text derived from the transcript
\* of another recording; and no step of a run or of a piece retry writes the
\* notes of a recording.
C24_NotesBelong ==
    [][\A id \in DOMAIN db' :
          /\ db'[id].formattedNotes.of \in {0, id}
          /\ \A t \in Slots :
                (Turn(t) /\ tasks[t].kind \in RunKinds \cup {"retry"} /\ id \in DOMAIN db)
                   => db'[id].formattedNotes = db[id].formattedNotes]_vars


\* C25: every piece of the piece array persisted under a recording id holds
\* the result of transcribing that recording's own payload, or an edit of such
\* a result; no write stores under an id a piece produced for another
\* recording.
C25_PiecesBelong ==
    \A id \in DOMAIN db :
        \A j \in 1..Len(db[id].transcriptChunks) :
            db[id].transcriptChunks[j].content.of \in {0, id}


\* C26: isTranscribing is true whenever an invocation of processRecording is
\* between its first storage write and its return, and whenever a remote
\* transcription call, of a run or of a piece retry, is in flight.
C26_BusyCoversRun ==
    \A t \in Slots :
        (\/ InRun(t) /\ tasks[t].pc # "got"
         \/ InPieceRetry(t) /\ tasks[t].pc \in {"tx1", "tx2"})
            => ui.isTranscribing


C29_FailedOnlyByTranscription ==
    /\ \A j \in 1..Len(ui.transcriptChunks) :
          ui.transcriptChunks[j].status = "failed" =>
              ui.transcriptChunks[j].content = TranscribeErrorMessage
    /\ \A id \in DOMAIN db : \A j \in 1..Len(db[id].transcriptChunks) :
          db[id].transcriptChunks[j].status = "failed" =>
              db[id].transcriptChunks[j].content = TranscribeErrorMessage


\* one step of the handler invocation in slot t: the settling of the storage
\* request or remote call it is waiting for, and the code that follows it
HandlerStep(t) ==
    \/ ProcStart(t) \/ ProcGot(t) \/ ProcW5(t) \/ ProcW10(t) \/ ProcWInit(t)
    \/ ProcWDone(t) \/ ProcWFail(t) \/ ProcWPiece(t) \/ ProcWFinal(t)
    \/ ProcWCatch(t) \/ Tx1(t) \/ Tx2(t)
    \/ RetryGot(t) \/ RetryW(t) \/ RetryCW(t)
    \/ SelectGot(t) \/ NotesFormatted(t) \/ NotesW(t)
    \/ RenameGot(t) \/ RenameW(t)

\* every storage request and every remote call eventually settles: no handler
\* invocation waits forever
Settles == \A t \in Slots : WF_vars(HandlerStep(t))

\* the application with storage requests that succeed and awaits that settle
SpecSettles == Init /\ [][Next]_vars /\ Settles

====
